---- MODULE Spec2Model ----
(***************************************************************************)
(* Model of the split-bill controller (validateSplitRequest,               *)
(* calculatePortionSplit, calculatePercentageSplit, createSplitOrders,     *)
(* splitBill).  The repository holds two versions of the controller,       *)
(* src/unnamed/part_000 and src/unnamed/part_001; they differ only in the  *)
(* post-commit completion step of createSplitOrders.  The variable         *)
(* `variant` says which of the two is running.                             *)
(***************************************************************************)
EXTENDS Integers, Sequences, FiniteSets, TLC

(***************************************************************************)
(* JavaScript numbers.  A number is a binary floating-point value m * 2^e  *)
(* kept in canonical form (m odd, or m = 0 and e = 0).  Every arithmetic   *)
(* operation of the source rounds its exact result to the nearest value    *)
(* with a MantBits-bit significand, ties to even, as IEEE-754 does with a  *)
(* 53-bit significand.                                                     *)
(***************************************************************************)
MantBits == 20

RECURSIVE Pow2(_)
Pow2(k) == IF k <= 0 THEN 1 ELSE 2 * Pow2(k - 1)

Abs(x) == IF x < 0 THEN -x ELSE x

Min(a, b) == IF a <= b THEN a ELSE b

Zero == [m |-> 0, e |-> 0]

RECURSIVE Canon(_, _)
Canon(m, e) ==
    IF m = 0 THEN Zero
    ELSE IF m % 2 = 0 THEN Canon(m \div 2, e + 1)
    ELSE [m |-> m, e |-> e]

Num(n) == Canon(n, 0)

Neg(x) == [m |-> -x.m, e |-> x.e]

\* the exact value (a / b) * 2^e, a >= 0, b > 0, rounded to MantBits bits
RECURSIVE RoundQ(_, _, _)
RoundQ(a, b, e) ==
    IF a = 0 THEN Zero
    ELSE IF a < b * Pow2(MantBits - 1) THEN RoundQ(2 * a, b, e - 1)
    ELSE IF a >= b * Pow2(MantBits) THEN RoundQ(a, 2 * b, e + 1)
    ELSE LET q == a \div b
             r == a % b
             up == IF 2 * r > b \/ (2 * r = b /\ q % 2 = 1) THEN 1 ELSE 0
         IN  Canon(q + up, e)

FRound(n, b, e) == IF n < 0 THEN Neg(RoundQ(-n, b, e)) ELSE RoundQ(n, b, e)

\* exact sum of two numbers (no rounding): used for comparisons and by FAdd
XAdd(x, y) ==
    LET lo == Min(x.e, y.e)
    IN  Canon(x.m * Pow2(x.e - lo) + y.m * Pow2(y.e - lo), lo)

\* x + y, x - y, x * y, x / y of the source
FAdd(x, y) == LET s == XAdd(x, y) IN FRound(s.m, 1, s.e)

FSub(x, y) == FAdd(x, Neg(y))

FMul(x, y) == FRound(x.m * y.m, 1, x.e + y.e)

FDiv(x, y) ==
    IF y.m < 0 THEN FRound(-x.m, -y.m, x.e - y.e)
    ELSE FRound(x.m, y.m, x.e - y.e)

FAbs(x) == [m |-> Abs(x.m), e |-> x.e]

\* x < y, x <= y, x > y
FLt(x, y) == XAdd(x, Neg(y)).m < 0

FLe(x, y) == XAdd(x, Neg(y)).m <= 0

FGt(x, y) == XAdd(x, Neg(y)).m > 0

\* Number.isInteger
IsInteger(x) == x.e >= 0

\* the integer a number holds, when IsInteger
IntOf(x) == x.m * Pow2(x.e)

\* the literals of the source
Hundred == Num(100)

Tolerance == FRound(1, 100, 0)

One == Num(1)

(***************************************************************************)
(* Values of the request body.  A missing string property is Undefined; a  *)
(* count or percentages property is a tagged value, so that a missing      *)
(* property, a value of the wrong type and a number are told apart as      *)
(* typeof / Array.isArray tell them apart.                                 *)
(***************************************************************************)
Undefined == "<undefined>"

\* !v of a string-valued property
Falsy(v) == v = Undefined \/ v = ""

NoValue == [t |-> "undefined"]

StrValue == [t |-> "string"]

NumValue(x) == [t |-> "number", v |-> x]

ArrValue(a) == [t |-> "array", v |-> a]

\* percentages.reduce((acc, curr) => acc + curr, 0)
RECURSIVE SumFrom(_, _, _)
SumFrom(acc, a, k) ==
    IF k > Len(a) THEN acc ELSE SumFrom(FAdd(acc, a[k]), a, k + 1)

Reduce(a) == SumFrom(Zero, a, 1)

MissingRequiredNoOrderId(body) == Falsy(body.tableId) \/ Falsy(body.splitType)

\* !tableId || !orderId || !splitType
MissingRequired(body) ==
    Falsy(body.tableId) \/ Falsy(body.orderId) \/ Falsy(body.splitType)

SomeNegative(a) == \E k \in 1..Len(a) : FLt(a[k], Zero)

\* percentages.some(p => p <= 0)
SomeNonPositive(a) == \E k \in 1..Len(a) : FLe(a[k], Zero)

\* if (splitType === 'portion')
ChecksCount(body) == body.splitType = "portion"

ChecksPercentagesWhenGiven(body) ==
    body.splitType = "percentage" \/ body.percentages.t # "undefined"

\* if (splitType === 'percentage')
ChecksPercentages(body) == body.splitType = "percentage"

\* the message of the Error validateSplitRequest throws, "ok" when it returns
validateSplitRequest(body) ==
    IF MissingRequired(body)
    THEN "tableId, orderId, and splitType are required"
    ELSE IF body.splitType \notin {"portion", "percentage"}
    THEN "splitType must be either \"portion\" or \"percentage\""
    ELSE IF /\ ChecksCount(body)
            /\ \/ body.count.t # "number"
               \/ body.count.v = Zero
               \/ FLt(body.count.v, One)
               \/ ~IsInteger(body.count.v)
    THEN "For portion split, count must be a positive integer"
    ELSE IF ~ChecksPercentages(body)
    THEN "ok"
    ELSE IF body.percentages.t # "array" \/ Len(body.percentages.v) = 0
    THEN "For percentage split, percentages must be a non-empty array"
    ELSE IF FGt(FAbs(FSub(Reduce(body.percentages.v), Hundred)), Tolerance)
    THEN "Percentages must sum to 100"
    ELSE IF SomeNonPositive(body.percentages.v)
    THEN "All percentages must be greater than 0"
    ELSE "ok"

(***************************************************************************)
(* The split calculators.  An item map is a function from item ids to item *)
(* lines; an item line is a record with a sequence of customizations.      *)
(***************************************************************************)
SplitCustomizationScaledPrice(c, q) ==
    [f \in DOMAIN c \cup {"qty", "originalPrice", "price"} |->
        IF f = "qty" THEN q
        ELSE IF f = "originalPrice" THEN c.price
        ELSE IF f = "price" THEN FMul(c.price, q)
        ELSE c[f]]

\* { ...c, qty: q, originalPrice: c.price, price: c.price }
SplitCustomization(c, q) ==
    [f \in DOMAIN c \cup {"qty", "originalPrice", "price"} |->
        IF f = "qty" THEN q
        ELSE IF f = "originalPrice" THEN c.price
        ELSE IF f = "price" THEN c.price
        ELSE c[f]]

\* itemData.customizations.reduce((sum, c) => sum + c.qty, 0)
RECURSIVE TotalQtyFrom(_, _, _)
TotalQtyFrom(acc, cs, k) ==
    IF k > Len(cs) THEN acc ELSE TotalQtyFrom(FAdd(acc, cs[k].qty), cs, k + 1)

PortionLineSkippingEmpty(itemData, count) ==
    LET kept == SelectSeq(itemData.customizations, LAMBDA c : c.qty # Zero)
    IN  [itemData EXCEPT !.customizations =
            [j \in DOMAIN kept |-> SplitCustomization(kept[j], FDiv(kept[j].qty, count))]]

PortionLineOfTotal(itemData, count) ==
    [itemData EXCEPT !.customizations =
        [j \in DOMAIN itemData.customizations |->
            SplitCustomization(itemData.customizations[j],
                FDiv(TotalQtyFrom(Zero, itemData.customizations, 1), count))]]

\* { ...itemData, customizations: itemData.customizations.map(...) }
PortionLine(itemData, count) ==
    [itemData EXCEPT !.customizations =
        [j \in DOMAIN itemData.customizations |->
            SplitCustomization(itemData.customizations[j],
                               FDiv(itemData.customizations[j].qty, count))]]

calculatePortionSplit(items, count) ==
    [k \in 1..IntOf(count) |->
        [itemId \in DOMAIN items |-> PortionLine(items[itemId], count)]]

PercentageLineOfPrice(itemData, percentage) ==
    [itemData EXCEPT !.customizations =
        [j \in DOMAIN itemData.customizations |->
            SplitCustomization(itemData.customizations[j],
                FDiv(FMul(itemData.customizations[j].price, percentage), Hundred))]]

PercentageLine(itemData, percentage) ==
    [itemData EXCEPT !.customizations =
        [j \in DOMAIN itemData.customizations |->
            SplitCustomization(itemData.customizations[j],
                FDiv(FMul(itemData.customizations[j].qty, percentage), Hundred))]]

calculatePercentageSplit(items, percentages) ==
    [k \in 1..Len(percentages) |->
        [itemId \in DOMAIN items |-> PercentageLine(items[itemId], percentages[k])]]

(***************************************************************************)
(* Bounds and input sets.                                                  *)
(***************************************************************************)
MaxCount == 3

ProcIds == {1, 2}

Variants == {"part_000", "part_001"}

\* 50 + 1/128: with 50 it sums to 100.0078125, inside the 0.01 tolerance
FiftyPlus == Canon(6401, -7)

PctLists ==
    { <<>>,
      <<Num(100)>>,
      <<Num(50), Num(50)>>,
      <<Num(60), Num(40)>>,
      <<Num(40), Num(35), Num(25)>>,
      <<Num(40), Num(35), Num(20)>>,
      <<Num(20), Num(70), Num(10)>>,
      <<Num(50), Num(-10), Num(60)>>,
      <<Num(0), Num(100)>>,
      <<Num(50), Num(51)>>,
      <<Num(50), FiftyPlus>> }

CountNumbers == {Num(n) : n \in -1..MaxCount} \cup {Canon(5, -1)}

CountInputs == {NoValue, StrValue} \cup {NumValue(x) : x \in CountNumbers}

PctInputs == {NoValue, StrValue} \cup {ArrValue(a) : a \in PctLists}

Requests ==
    [tableId : {Undefined, "", "T1", "T2"},
     orderId : {Undefined, "", "O1", "O9"},
     splitType : {Undefined, "", "portion", "percentage", "half"},
     count : CountInputs,
     percentages : PctInputs]

Menu1(q) ==
    [i1 |-> [name |-> "tea",
             customizations |-> <<[cname |-> "plain", qty |-> q, price |-> Num(10)]>>]]

Menu2 ==
    [i1 |-> [name |-> "tea",
             customizations |-> <<[cname |-> "plain", qty |-> Num(10), price |-> Num(10)],
                                  [cname |-> "milk", qty |-> Num(0), price |-> Canon(3, -1)]>>],
     i2 |-> [name |-> "cake",
             customizations |-> <<[cname |-> "slice", qty |-> Num(20), price |-> Num(5)]>>]]

ItemMaps == {Menu1(Num(9)), Menu1(Num(10)), Menu2}

\* A row of the orders table.  instructions, invoice_number and flags stand for
\* the columns the INSERT copies from the original row; xmin is the
\* transaction that wrote the row (0: written before the run).
OrderRow(id, table, items) ==
    [id |-> id, restaurant_id |-> "R1", table_id |-> table,
     json_data |-> [items |-> items],
     instructions |-> "note-" \o id, invoice_number |-> "inv-" \o id,
     flags |-> "flags-" \o id, xmin |-> 0]

NoRow == [id |-> ""]

NoResponse == [status |-> 0]

NoBody ==
    [tableId |-> Undefined, orderId |-> Undefined, splitType |-> Undefined,
     count |-> NoValue, percentages |-> NoValue]

DbError == "store error"

CompletionError == "completion error"

(***************************************************************************)
(* State.  orders is the committed content of the orders table.  Per       *)
(* request p: body[p] the request body, pc[p] the await the handler is at, *)
(* order[p] the fetched row, splits[p] the calculated shares, txn[p] the   *)
(* state of the client's transaction, pending[p] the rows it has inserted  *)
(* and not committed, i[p] and results[p] the loop variables of            *)
(* createSplitOrders, error[p] the error being propagated, response[p]     *)
(* what res received, trace[p] the calls made to the store, the pool and   *)
(* the completion collaborator, completions[p] the arguments of the        *)
(* completion calls.                                                       *)
(***************************************************************************)
VARIABLES variant, orders, body, pc, order, splits, txn, pending, i, results,
          error, response, trace, completions

vars == <<variant, orders, body, pc, order, splits, txn, pending, i, results,
          error, response, trace, completions>>

InitState(bodies, active) ==
    /\ variant \in Variants
    /\ \E items \in ItemMaps :
          orders = <<OrderRow("O1", "T1", items), OrderRow("O2", "T2", Menu1(Num(9)))>>
    /\ body = bodies
    /\ pc = [p \in ProcIds |-> IF p \in active THEN "validate" ELSE "idle"]
    /\ order = [p \in ProcIds |-> NoRow]
    /\ splits = [p \in ProcIds |-> <<>>]
    /\ txn = [p \in ProcIds |-> "none"]
    /\ pending = [p \in ProcIds |-> <<>>]
    /\ i = [p \in ProcIds |-> 0]
    /\ results = [p \in ProcIds |-> <<>>]
    /\ error = [p \in ProcIds |-> ""]
    /\ response = [p \in ProcIds |-> NoResponse]
    /\ trace = [p \in ProcIds |-> <<>>]
    /\ completions = [p \in ProcIds |-> <<>>]

\* one request
Init ==
    \E r \in Requests :
        InitState([p \in ProcIds |-> IF p = 1 THEN r ELSE NoBody], {1})

(***************************************************************************)
(* Helpers of the actions.                                                 *)
(***************************************************************************)
Upd(f, p, v) == [f EXCEPT ![p] = v]

\* the calls a step makes, in order; a call that fails is recorded as such
Called(p, calls) == trace' = Upd(trace, p, trace[p] \o calls)

\* res.status(code).json({ error })
ErrorResponse(code, msg) == [status |-> code, json |-> [error |-> msg]]

\* res.json({ message, results })
SuccessResponse(res) ==
    [status |-> 200, json |-> [message |-> "Bill split successful", results |-> res]]

CaughtAsServerError(p, msg) ==
    /\ response' = Upd(response, p, ErrorResponse(500, msg))
    /\ pc' = Upd(pc, p, "done")

\* splitBill's catch block: res.status(400).json({ error: error.message })
Caught(p, msg) ==
    /\ response' = Upd(response, p, ErrorResponse(400, msg))
    /\ pc' = Upd(pc, p, "done")

newOrderIdFromZero(originalOrderId, k) == originalOrderId \o "-split-" \o ToString(k)

\* `${originalOrderId}-split-${i + 1}`
newOrderId(originalOrderId, k) == originalOrderId \o "-split-" \o ToString(k + 1)

\* the row RETURNING * gives back: the columns, not the system column xmin
Returned(row) == [f \in DOMAIN row \ {"xmin"} |-> row[f]]

InsertSelectWithoutInstructions(visible, newId, payload, originalOrderId, xid) ==
    LET src == SelectSeq(visible, LAMBDA r : r.id = originalOrderId)
    IN  [k \in 1..Len(src) |->
            [src[k] EXCEPT !.id = newId, !.json_data = payload,
                           !.instructions = "", !.xmin = xid]]

\* INSERT INTO orders (...) SELECT $1, ..., $2, ... FROM orders WHERE id = $3:
\* one new row per row of `visible` whose id is originalOrderId
InsertSelect(visible, newId, payload, originalOrderId, xid) ==
    LET src == SelectSeq(visible, LAMBDA r : r.id = originalOrderId)
    IN  [k \in 1..Len(src) |->
            [src[k] EXCEPT !.id = newId, !.json_data = payload, !.xmin = xid]]

\* what a statement of request p's client sees: committed rows and its own
Visible(p) == orders \o pending[p]

(***************************************************************************)
(* splitBill, up to the call of createSplitOrders.                         *)
(***************************************************************************)
MatchesIdOnly(r, orderId, tableId) == r.id = orderId

\* WHERE id = $1 AND table_id = $2
Matches(r, orderId, tableId) == r.id = orderId /\ r.table_id = tableId

\* validateSplitRequest(req.body), then the SELECT is issued
Validate(p) ==
    /\ pc[p] = "validate"
    /\ LET msg == validateSplitRequest(body[p])
       IN  IF msg # "ok"
           THEN Caught(p, msg)
           ELSE /\ pc' = Upd(pc, p, "fetch")
                /\ UNCHANGED response
    /\ UNCHANGED <<variant, orders, body, order, splits, txn, pending, i, results,
                   error, trace, completions>>

\* SELECT * FROM orders WHERE id = $1 AND table_id = $2; then the not-found
\* check, the split calculation and the call of createSplitOrders, which
\* asks the pool for a client
FetchOrder(p) ==
    /\ pc[p] = "fetch"
    /\ \/ /\ Called(p, <<"SELECT failed">>)
          /\ Caught(p, DbError)
          /\ UNCHANGED <<order, splits>>
       \/ LET rows == SelectSeq(orders, LAMBDA r : Matches(r, body[p].orderId,
                                                           body[p].tableId))
          IN  IF Len(rows) = 0
              THEN /\ Called(p, <<"SELECT">>)
                   /\ response' = Upd(response, p, ErrorResponse(404, "Order not found"))
                   /\ pc' = Upd(pc, p, "done")
                   /\ UNCHANGED <<order, splits>>
              ELSE /\ Called(p, <<"SELECT">>)
                   /\ order' = Upd(order, p, Returned(rows[1]))
                   /\ splits' = Upd(splits, p,
                         IF body[p].splitType = "portion"
                         THEN calculatePortionSplit(rows[1].json_data.items,
                                                    body[p].count.v)
                         ELSE calculatePercentageSplit(rows[1].json_data.items,
                                                       body[p].percentages.v))
                   /\ pc' = Upd(pc, p, "connect")
                   /\ UNCHANGED response
    /\ UNCHANGED <<variant, orders, body, txn, pending, i, results, error, completions>>

(***************************************************************************)
(* createSplitOrders, one action per await.                                *)
(***************************************************************************)
WriteRemovingOriginal(p, rows) ==
    /\ pending' = Upd(pending, p, pending[p] \o rows)
    /\ orders' = SelectSeq(orders, LAMBDA r : r.id # body[p].orderId)

WriteAutocommit(p, rows) ==
    /\ orders' = orders \o rows
    /\ UNCHANGED pending

\* rows inserted through the client after BEGIN stay invisible to the other
\* sessions until COMMIT
Write(p, rows) ==
    /\ pending' = Upd(pending, p, pending[p] \o rows)
    /\ UNCHANGED orders

AfterInsertCompleteFirst(p, n) == IF n < Len(splits[p]) THEN "insert" ELSE "complete"

\* for (let i = 0; i < splits.length; i++) { ... } await client.query('COMMIT')
AfterInsert(p, n) == IF n < Len(splits[p]) THEN "insert" ELSE "commit"

\* const client = await pool.connect(): outside the try block
Connect(p) ==
    /\ pc[p] = "connect"
    /\ \/ /\ Called(p, <<"CONNECT">>)
          /\ pc' = Upd(pc, p, "begin")
          /\ UNCHANGED response
       \/ /\ Called(p, <<"CONNECT failed">>)
          /\ Caught(p, DbError)
    /\ UNCHANGED <<variant, orders, body, order, splits, txn, pending, i, results,
                   error, completions>>

\* await client.query('BEGIN')
Begin(p) ==
    /\ pc[p] = "begin"
    /\ \/ /\ Called(p, <<"BEGIN">>)
          /\ txn' = Upd(txn, p, "open")
          /\ pc' = Upd(pc, p, AfterInsert(p, i[p]))
          /\ UNCHANGED error
       \/ /\ Called(p, <<"BEGIN failed">>)
          /\ error' = Upd(error, p, DbError)
          /\ pc' = Upd(pc, p, "rollback")
          /\ UNCHANGED txn
    /\ UNCHANGED <<variant, orders, body, order, splits, pending, i, results,
                   response, completions>>

CreateFailedMessageOfOriginal(originalOrderId, k) ==
    "Failed to create split order " \o originalOrderId

\* `Failed to create split order ${newOrderId}`
CreateFailedMessage(originalOrderId, k) ==
    "Failed to create split order " \o newOrderId(originalOrderId, k)

\* one turn of the loop: the INSERT ... SELECT ... RETURNING *, the check of
\* insertResult.rows[0] and results.push
InsertSplit(p) ==
    /\ pc[p] = "insert"
    /\ \/ /\ Called(p, <<"INSERT failed">>)
          /\ error' = Upd(error, p, DbError)
          /\ pc' = Upd(pc, p, "rollback")
          /\ UNCHANGED <<orders, pending, i, results>>
       \/ LET id == newOrderId(body[p].orderId, i[p])
              splitItems == splits[p][i[p] + 1]
              rows == InsertSelect(Visible(p), id, [items |-> splitItems],
                                   body[p].orderId, p)
          IN  /\ Called(p, <<IF Len(rows) = 0 THEN "INSERT no row" ELSE "INSERT">>)
              /\ IF Len(rows) = 0
                 THEN /\ error' = Upd(error, p, CreateFailedMessage(body[p].orderId, i[p]))
                      /\ pc' = Upd(pc, p, "rollback")
                      /\ UNCHANGED <<orders, pending, i, results>>
                 ELSE /\ Write(p, rows)
                      /\ results' = Upd(results, p,
                            Append(results[p],
                                   [orderId |-> id, items |-> splitItems,
                                    billData |-> Returned(rows[1])]))
                      /\ i' = Upd(i, p, i[p] + 1)
                      /\ pc' = Upd(pc, p, AfterInsert(p, i[p] + 1))
                      /\ UNCHANGED error
    /\ UNCHANGED <<variant, body, order, splits, txn, response, completions>>

\* await client.query('COMMIT'): the inserted rows become visible
Commit(p) ==
    /\ pc[p] = "commit"
    /\ \/ /\ Called(p, <<"COMMIT">>)
          /\ orders' = orders \o pending[p]
          /\ txn' = Upd(txn, p, "committed")
          /\ pc' = Upd(pc, p, "complete")
          /\ UNCHANGED error
       \/ /\ Called(p, <<"COMMIT failed">>)
          /\ txn' = Upd(txn, p, "aborted")
          /\ error' = Upd(error, p, DbError)
          /\ pc' = Upd(pc, p, "rollback")
          /\ UNCHANGED orders
    /\ pending' = Upd(pending, p, <<>>)
    /\ UNCHANGED <<variant, body, order, splits, i, results, response, completions>>

\* what the completion collaborator may do to the orders table: nothing, or
\* close the table it was called for (its rows leave the orders table)
CloseTable(rows, restaurantId, tableId) ==
    SelectSeq(rows, LAMBDA r : ~(r.restaurant_id = restaurantId /\ r.table_id = tableId))

\* finally { client.release() } and the success response of splitBill
ReturnResults(p, calls) ==
    /\ Called(p, calls \o <<"RELEASE">>)
    /\ response' = Upd(response, p, SuccessResponse(results[p]))
    /\ pc' = Upd(pc, p, "done")

\* the completion call after COMMIT.  part_000 awaits completeOrder(...) inside
\* the outer try; part_001 awaits completeOrderController(mockReq, mockRes)
\* inside a try of its own and goes on to two diagnostic queries.
CompleteOriginal(p) ==
    /\ pc[p] = "complete"
    /\ completions' = Upd(completions, p,
          Append(completions[p],
                 <<order[p].restaurant_id, order[p].table_id, 0, "split">>))
    /\ \E outcome \in {"COMPLETE", "COMPLETE failed", "COMPLETE threw"} :
          /\ \/ orders' = orders
             \/ /\ outcome = "COMPLETE"
                /\ orders' = CloseTable(orders, order[p].restaurant_id, order[p].table_id)
          /\ IF variant = "part_001"
             THEN /\ Called(p, <<outcome>>)
                  /\ pc' = Upd(pc, p, "checkOrders")
                  /\ UNCHANGED <<error, response>>
             ELSE IF outcome = "COMPLETE threw"
             THEN /\ Called(p, <<outcome>>)
                  /\ error' = Upd(error, p, CompletionError)
                  /\ pc' = Upd(pc, p, "rollback")
                  /\ UNCHANGED response
             ELSE /\ ReturnResults(p, <<outcome>>)
                  /\ UNCHANGED error
    /\ UNCHANGED <<variant, body, order, splits, txn, pending, i, results>>

\* part_001: SELECT ... FROM orders WHERE restaurant_id = $1 AND table_id = $2,
\* in a try that swallows the error
CheckOrders(p) ==
    /\ pc[p] = "checkOrders"
    /\ \E call \in {"SELECT orders", "SELECT orders failed"} : Called(p, <<call>>)
    /\ pc' = Upd(pc, p, "checkCompleted")
    /\ UNCHANGED <<variant, orders, body, order, splits, txn, pending, i, results,
                   error, response, completions>>

\* part_001: SELECT ... FROM completed_orders ..., in a try that swallows the
\* error; then return results
CheckCompleted(p) ==
    /\ pc[p] = "checkCompleted"
    /\ \E call \in {"SELECT completed_orders", "SELECT completed_orders failed"} :
          ReturnResults(p, <<call>>)
    /\ UNCHANGED <<variant, orders, body, order, splits, txn, pending, i, results,
                   error, completions>>

\* catch (error) { await client.query('ROLLBACK'); throw error } finally
\* { client.release() }, and splitBill's catch block
Rollback(p) ==
    /\ pc[p] = "rollback"
    /\ \/ /\ Called(p, <<"ROLLBACK", "RELEASE">>)
          /\ pending' = Upd(pending, p, <<>>)
          /\ txn' = Upd(txn, p, IF txn[p] = "open" THEN "rolledback" ELSE txn[p])
          /\ Caught(p, error[p])
          /\ UNCHANGED error
       \/ /\ Called(p, <<"ROLLBACK failed", "RELEASE">>)
          /\ error' = Upd(error, p, DbError)
          /\ Caught(p, DbError)
          /\ UNCHANGED <<pending, txn>>
    /\ UNCHANGED <<variant, orders, body, order, splits, i, results, completions>>

(***************************************************************************)
(* The environment: while a request is in flight, the table it names may   *)
(* be closed by the order-completion subsystem on behalf of someone else.  *)
(***************************************************************************)
TableClosedElsewhere ==
    \E p \in ProcIds :
        /\ pc[p] \notin {"idle", "done"}
        /\ \E k \in 1..Len(orders) : orders[k].table_id = body[p].tableId
        /\ orders' = CloseTable(orders, "R1", body[p].tableId)
        /\ UNCHANGED <<variant, body, pc, order, splits, txn, pending, i, results,
                       error, response, trace, completions>>

(***************************************************************************)
(* Two requests for the same order in flight at once: each runs splitBill  *)
(* on its own pooled client; the steps of the two interleave freely.       *)
(***************************************************************************)
RaceRequests ==
    {r \in Requests :
        /\ r.tableId = "T1"
        /\ r.orderId = "O1"
        /\ \/ /\ r.splitType = "portion"
              /\ r.count = NumValue(Num(2))
              /\ r.percentages = NoValue
           \/ /\ r.splitType = "percentage"
              /\ r.count = NoValue
              /\ r.percentages = ArrValue(<<Num(60), Num(40)>>)}

InitRace ==
    \E r1, r2 \in RaceRequests :
        InitState([p \in ProcIds |-> IF p = 1 THEN r1 ELSE r2], ProcIds)

Next ==
    \/ \E p \in ProcIds :
          \/ Validate(p)
          \/ FetchOrder(p)
          \/ Connect(p)
          \/ Begin(p)
          \/ InsertSplit(p)
          \/ Commit(p)
          \/ CompleteOriginal(p)
          \/ CheckOrders(p)
          \/ CheckCompleted(p)
          \/ Rollback(p)
    \/ TableClosedElsewhere

Spec == Init /\ [][Next]_vars

SpecRace == InitRace /\ [][Next]_vars

(***************************************************************************)
(* Vocabulary of the properties.                                           *)
(***************************************************************************)
Range(f) == {f[k] : k \in DOMAIN f}

Running == {p \in ProcIds : pc[p] # "idle"}

\* the rows of the orders table written by request p's transaction
Mine(p) == SelectSeq(orders, LAMBDA r : r.xmin = p)

\* the number of shares the request asks for
Shares(p) ==
    IF body[p].splitType = "portion" THEN IntOf(body[p].count.v)
    ELSE Len(body[p].percentages.v)

DigitStr == <<"1", "2", "3", "4", "5", "6", "7", "8", "9">>

\* the derived ids '<orderId>-split-1' .. '<orderId>-split-n'
DerivedIds(orderId, n) == {orderId \o "-split-" \o DigitStr[k] : k \in 1..n}

InsertFailed(p) == \E k \in DOMAIN trace[p] : trace[p][k] \in {"INSERT failed", "INSERT no row"}

Succeeded(p) == response[p].status = 200

\* C1: a failed insert leaves no derived row of the operation visible once the
\* operation has ended, and at every moment the derived rows of an operation
\* that are visible in the order store are all N of them, under the derived
\* ids, or none.
C1_AtomicPersistence ==
    \A p \in Running :
        /\ (pc[p] = "done" /\ InsertFailed(p)) => Len(Mine(p)) = 0
        /\ Len(Mine(p)) \in {0, Len(splits[p])}
        /\ Len(Mine(p)) > 0 =>
              /\ txn[p] = "committed"
              /\ {r.id : r \in Range(Mine(p))} = DerivedIds(body[p].orderId, Shares(p))
              /\ Cardinality(DerivedIds(body[p].orderId, Shares(p))) = Len(Mine(p))

\* the insert of index 2 of 3 failed after two inserts had succeeded
C1_Witness ==
    /\ pc[1] = "done"
    /\ Len(splits[1]) = 3
    /\ i[1] = 2
    /\ InsertFailed(1)

\* C2: whenever the transaction has committed, the operation answers with the
\* success response carrying the results of all N created orders, whatever
\* the completion collaborator did.
C2_CompletionNonBlocking ==
    \A p \in Running :
        (pc[p] = "done" /\ txn[p] = "committed") =>
            /\ response[p] = SuccessResponse(results[p])
            /\ Len(results[p]) = Shares(p)

\* C3: the completion collaborator is called at most once, only right after a
\* successful COMMIT, never while the transaction is open, and an operation
\* that has ended has called it exactly when its transaction committed.
C3_CompletionOnlyAfterCommit ==
    \A p \in Running :
        /\ Len(completions[p]) <= 1
        /\ Len(completions[p]) =
              Cardinality({k \in DOMAIN trace[p] :
                  trace[p][k] \in {"COMPLETE", "COMPLETE failed", "COMPLETE threw"}})
        /\ \A k \in DOMAIN trace[p] :
              trace[p][k] \in {"COMPLETE", "COMPLETE failed", "COMPLETE threw"} =>
                  k > 1 /\ trace[p][k - 1] = "COMMIT"
        /\ Len(completions[p]) = 1 => txn[p] = "committed"
        /\ txn[p] \in {"none", "open", "aborted", "rolledback"} => completions[p] = <<>>
        /\ pc[p] = "done" => (Len(completions[p]) = 1 <=> txn[p] = "committed")

\* a committed operation has ended after a completion call that threw
C3_Witness ==
    /\ pc[1] = "done"
    /\ Len(completions[1]) = 1
    /\ \E k \in DOMAIN trace[1] : trace[1][k] = "COMPLETE threw"

\* the items of share k as the calculators define them, from the fetched order
ShareOf(p, k) ==
    IF body[p].splitType = "portion"
    THEN calculatePortionSplit(order[p].json_data.items, body[p].count.v)[k]
    ELSE calculatePercentageSplit(order[p].json_data.items, body[p].percentages.v)[k]

\* C4: a successful split returns exactly N results; result k has orderId
\* '<orderId>-split-k' and carries share k of the calculator as its items.
C4_IdDeterminism ==
    \A p \in Running :
        Succeeded(p) =>
            LET res == response[p].json.results
            IN  /\ Len(res) = Shares(p)
                /\ \A k \in 1..Len(res) :
                      /\ res[k].orderId = body[p].orderId \o "-split-" \o DigitStr[k]
                      /\ res[k].items = ShareOf(p, k)

\* a successful percentage split in the shares 40, 35, 25
C4_Witness ==
    /\ Succeeded(1)
    /\ body[1].splitType = "percentage"
    /\ body[1].percentages.v = <<Num(40), Num(35), Num(25)>>

BadHeader(b) ==
    \/ Falsy(b.tableId) \/ Falsy(b.orderId) \/ Falsy(b.splitType)
    \/ b.splitType \notin {"portion", "percentage"}

\* C5: a request with a missing or falsy tableId, orderId or splitType, or a
\* splitType other than portion and percentage, is answered with an error
\* without any call to the store, the pool or the completion collaborator.
C5_ValidationTotality ==
    \A p \in Running :
        BadHeader(body[p]) =>
            /\ trace[p] = <<>>
            /\ completions[p] = <<>>
            /\ txn[p] = "none"
            /\ pc[p] \in {"validate", "done"}
            /\ pc[p] = "done" =>
                  /\ response[p].status = 400
                  /\ response[p].json.error \in
                        {"tableId, orderId, and splitType are required",
                         "splitType must be either \"portion\" or \"percentage\""}

\* a request whose splitType is neither portion nor percentage was answered
C5_Witness ==
    /\ pc[1] = "done"
    /\ body[1].splitType = "half"
    /\ ~Falsy(body[1].tableId)
    /\ ~Falsy(body[1].orderId)

\* C6: a fetch that finds no row for (orderId, tableId) answers not-found
\* having made no other call: no transaction, no insert, no completion call,
\* no row written; and a row that is fetched matches both keys.
C6_NotFoundShortCircuit ==
    \A p \in Running :
        /\ (pc[p] \notin {"validate", "fetch"} /\ trace[p] = <<"SELECT">> /\ order[p] = NoRow)
              => response[p] = ErrorResponse(404, "Order not found")
        /\ order[p] # NoRow =>
              order[p].id = body[p].orderId /\ order[p].table_id = body[p].tableId
        /\ response[p].status = 404 =>
              /\ pc[p] = "done"
              /\ trace[p] = <<"SELECT">>
              /\ order[p] = NoRow
              /\ txn[p] = "none"
              /\ pending[p] = <<>>
              /\ results[p] = <<>>
              /\ completions[p] = <<>>
              /\ Len(Mine(p)) = 0

\* the order exists, but at another table than the one the request names
C6_Witness ==
    /\ response[1].status = 404
    /\ body[1].orderId = "O1"
    /\ body[1].tableId = "T2"
    /\ \E k \in 1..Len(orders) : orders[k].id = "O1"

(***************************************************************************)
(* Exact arithmetic on numbers, for stating the numerical properties: no   *)
(* rounding takes place in XAdd, XMul, XScale and XSum.                    *)
(***************************************************************************)
XMul(x, y) == Canon(x.m * y.m, x.e + y.e)

\* x * 2^k
XScale(x, k) == IF x.m = 0 THEN Zero ELSE [m |-> x.m, e |-> x.e + k]

XDist(x, y) == FAbs(XAdd(x, Neg(y)))

RECURSIVE XSumFrom(_, _, _)
XSumFrom(acc, a, k) ==
    IF k > Len(a) THEN acc ELSE XSumFrom(XAdd(acc, a[k]), a, k + 1)

XSum(a) == XSumFrom(Zero, a, 1)

\* x has a significand of at most MantBits bits
Representable(x) == Abs(x.m) < Pow2(MantBits)

\* the calculated shares of request p, once the order has been fetched
PortionComputed(p) == splits[p] # <<>> /\ body[p].splitType = "portion"

PercentageComputed(p) == splits[p] # <<>> /\ body[p].splitType = "percentage"

Items(p) == order[p].json_data.items

\* the quantities that customization j of item it has in the shares, in order
ShareQtys(p, it, j) ==
    [k \in 1..Len(splits[p]) |-> splits[p][k][it].customizations[j].qty]

\* C7 as stated: in a portion split the quantities of the shares add up to
\* exactly the original quantity, for every item and customization.
C7_PortionSumExact ==
    \A p \in Running :
        PortionComputed(p) =>
            \A it \in DOMAIN Items(p) :
                \A j \in DOMAIN Items(p)[it].customizations :
                    XSum(ShareQtys(p, it, j)) = Items(p)[it].customizations[j].qty

\* C7 amended: there are count shares; every share has the same quantity,
\* the floating-point quotient original.qty / count (the representable
\* number nearest the exact quotient); the shares add up to the original
\* quantity up to the rounding of that one division (relative error at most
\* 2^-MantBits), and exactly when count divides an integer quantity.
C7_PortionConservation ==
    \A p \in Running :
        PortionComputed(p) =>
            /\ Len(splits[p]) = IntOf(body[p].count.v)
            /\ \A k \in 1..Len(splits[p]) : DOMAIN splits[p][k] = DOMAIN Items(p)
            /\ \A it \in DOMAIN Items(p) :
                  \A j \in DOMAIN Items(p)[it].customizations :
                      LET q == Items(p)[it].customizations[j].qty
                          n == body[p].count.v
                          qs == ShareQtys(p, it, j)
                      IN  /\ \A k \in 1..Len(qs) : qs[k] = qs[1] /\ Representable(qs[k])
                          /\ FLe(XScale(XDist(XMul(n, qs[1]), q), MantBits), FAbs(q))
                          /\ FLe(XScale(XDist(XSum(qs), q), MantBits), FAbs(q))
                          /\ (IsInteger(q) /\ IntOf(q) % IntOf(n) = 0) => XSum(qs) = q

\* a quantity of 10 split in 3 portions, none of them the exact third
C7_Witness ==
    /\ PortionComputed(1)
    /\ body[1].count.v = Num(3)
    /\ Items(1).i1.customizations[1].qty = Num(10)
    /\ XSum(ShareQtys(1, "i1", 1)) # Num(10)

\* C8 as stated: in a percentage split the quantities of the shares add up to
\* exactly the original quantity when the percentages sum to exactly 100, and
\* otherwise to within original.qty * 0.01 / 100 of it.
C8_PercentageSumExact ==
    \A p \in Running :
        PercentageComputed(p) =>
            \A it \in DOMAIN Items(p) :
                \A j \in DOMAIN Items(p)[it].customizations :
                    LET q == Items(p)[it].customizations[j].qty
                        sum == XSum(ShareQtys(p, it, j))
                    IN  IF XSum(body[p].percentages.v) = Hundred
                        THEN sum = q
                        ELSE FLe(XMul(Num(10000), XDist(sum, q)), FAbs(q))

\* C8 amended: there is one share per percentage, in the caller's order;
\* share i has the floating-point value of (original.qty * percentages[i]) /
\* 100, within a relative error of 3 * 2^-MantBits of the exact product; the
\* shares add up to original.qty * (sum of the percentages) / 100 up to that
\* rounding, hence to exactly original.qty when the percentages sum to 100
\* and every share is exact (40, 35, 25 on 20 gives 8, 7, 5), and the sum of
\* the percentages is within 0.01 of 100.
C8_PercentageConservation ==
    \A p \in Running :
        PercentageComputed(p) =>
            LET pcts == body[p].percentages.v
                total == XSum(pcts)
            IN  /\ Len(splits[p]) = Len(pcts)
                /\ FLe(XDist(total, Hundred), Tolerance)
                /\ \A it \in DOMAIN Items(p) :
                      \A j \in DOMAIN Items(p)[it].customizations :
                          LET q == Items(p)[it].customizations[j].qty
                              qs == ShareQtys(p, it, j)
                              exact == \A k \in 1..Len(qs) :
                                          XMul(Hundred, qs[k]) = XMul(q, pcts[k])
                          IN  /\ \A k \in 1..Len(qs) :
                                    /\ Representable(qs[k])
                                    /\ FLe(XScale(XDist(XMul(Hundred, qs[k]),
                                                        XMul(q, pcts[k])), MantBits),
                                           XMul(Num(3), XMul(q, pcts[k])))
                              /\ FLe(XScale(XDist(XMul(Hundred, XSum(qs)),
                                                  XMul(q, total)), MantBits),
                                     XMul(Num(3), XMul(q, total)))
                              /\ (exact /\ total = Hundred) => XSum(qs) = q
                              /\ (q = Num(20) /\ pcts = <<Num(40), Num(35), Num(25)>>)
                                    => qs = <<Num(8), Num(7), Num(5)>>

\* the shares 40, 35, 25 of a quantity of 20
C8_Witness ==
    /\ PercentageComputed(1)
    /\ body[1].percentages.v = <<Num(40), Num(35), Num(25)>>
    /\ "i2" \in DOMAIN Items(1)
    /\ Items(1).i2.customizations[1].qty = Num(20)
    /\ ShareQtys(1, "i2", 1) = <<Num(8), Num(7), Num(5)>>

\* validation has failed: the error response was sent before any call
ValidationFailed(p) == pc[p] = "done" /\ trace[p] = <<>> /\ response[p].status = 400

SumOff(a) == FGt(XDist(XSum(a), Hundred), Tolerance)

\* C9: a percentage request with tableId and orderId is rejected exactly
\* when percentages is missing, is not a non-empty array, has a sum more than
\* 0.01 away from 100, or holds an entry <= 0; a sum that is off is reported
\* as such, and a non-positive entry in a list that sums to 100 is reported
\* by the non-positive check.
C9_PercentageValidation ==
    \A p \in Running :
        (/\ pc[p] # "validate"
         /\ ~Falsy(body[p].tableId)
         /\ ~Falsy(body[p].orderId)
         /\ body[p].splitType = "percentage") =>
            LET pv == body[p].percentages
                isList == pv.t = "array" /\ Len(pv.v) > 0
            IN  /\ ValidationFailed(p) <=>
                      \/ ~isList
                      \/ SumOff(pv.v)
                      \/ \E k \in 1..Len(pv.v) : FLe(pv.v[k], Zero)
                /\ (isList /\ SumOff(pv.v)) =>
                      response[p].json.error = "Percentages must sum to 100"
                /\ (isList /\ ~SumOff(pv.v) /\ \E k \in 1..Len(pv.v) : FLe(pv.v[k], Zero)) =>
                      response[p].json.error = "All percentages must be greater than 0"

\* 50, -10, 60 sums to 100 and was rejected by the non-positive check
C9_Witness ==
    /\ ValidationFailed(1)
    /\ body[1].splitType = "percentage"
    /\ body[1].percentages = ArrValue(<<Num(50), Num(-10), Num(60)>>)
    /\ response[1].json.error = "All percentages must be greater than 0"

\* C10: in every share of either strategy, every customization keeps the
\* price of the original customization, records it as originalPrice, and
\* differs from the original in no other field than qty.
C10_PriceNeverSplit ==
    \A p \in Running :
        splits[p] # <<>> =>
            \A k \in 1..Len(splits[p]) :
                \A it \in DOMAIN Items(p) :
                    LET was == Items(p)[it]
                        now == splits[p][k][it]
                    IN  /\ DOMAIN now = DOMAIN was
                        /\ \A f \in DOMAIN was \ {"customizations"} : now[f] = was[f]
                        /\ Len(now.customizations) = Len(was.customizations)
                        /\ \A j \in DOMAIN was.customizations :
                              LET c == was.customizations[j]
                                  d == now.customizations[j]
                              IN  /\ d.price = c.price
                                  /\ d.originalPrice = c.price
                                  /\ DOMAIN d = DOMAIN c \cup {"originalPrice"}
                                  /\ \A f \in DOMAIN c \ {"qty", "originalPrice"} :
                                        d[f] = c[f]

\* a percentage share whose quantity differs from the original's
C10_Witness ==
    /\ PercentageComputed(1)
    /\ Len(splits[1]) = 2
    /\ "i2" \in DOMAIN Items(1)
    /\ Items(1).i2.customizations[1].price = Num(5)
    /\ splits[1][1].i2.customizations[1].qty # Items(1).i2.customizations[1].qty
    /\ splits[1][1].i2.customizations[1].originalPrice = Num(5)

\* the columns the INSERT ... SELECT takes over from the original order row
CopiedColumns(row) == DOMAIN row \ {"id", "json_data", "xmin"}

\* row is the clone of original for share k of request p
CloneOf(p, row, original, k) ==
    /\ row.id = body[p].orderId \o "-split-" \o DigitStr[k]
    /\ row.json_data = [items |-> splits[p][k]]
    /\ DOMAIN Returned(row) = DOMAIN original
    /\ \A c \in CopiedColumns(row) : row[c] = original[c]

\* C11: every derived row a split has written, in its transaction and in the
\* store after COMMIT, and every row it returns, has the id
\* '<orderId>-split-<k>' and the item payload {items: shares[k]} of its index
\* k, and every other column equal to that column of the original order row.
C11_Cloning ==
    \A p \in Running :
        /\ \A k \in DOMAIN pending[p] : CloneOf(p, pending[p][k], order[p], k)
        /\ \A k \in DOMAIN Mine(p) : CloneOf(p, Mine(p)[k], order[p], k)
        /\ \A k \in DOMAIN results[p] :
              /\ CloneOf(p, results[p][k].billData, order[p], k)
              /\ results[p][k].items = splits[p][k]

\* a committed percentage split of the two-item order: both clones are in the
\* store next to the original row, with different payloads
C11_Witness ==
    /\ txn[1] = "committed"
    /\ body[1].splitType = "percentage"
    /\ Len(Mine(1)) = 2
    /\ Mine(1)[1].json_data # Mine(1)[2].json_data
    /\ Mine(1)[1].json_data # order[1].json_data
    /\ \E k \in DOMAIN orders : Returned(orders[k]) = order[1]

\* the operation of request p has ended with a failure
Failed(p) == pc[p] = "done" /\ ~Succeeded(p)

\* the fetch of request p found no row for (orderId, tableId)
NotFound(p) == pc[p] = "done" /\ trace[p] = <<"SELECT">>

\* C12 as stated: every failed split operation answers {error: string} with
\* status 400, whatever the category of the failure.
C12_AllFailures400 ==
    \A p \in Running :
        Failed(p) => /\ response[p].status = 400
                     /\ DOMAIN response[p].json = {"error"}

\* C12: every failed split operation answers with the body {error: string};
\* the status is 404, with the message 'Order not found', when the fetch
\* found no order, and 400 for every other failure (validation, a failed
\* query, a failed insert, COMMIT or ROLLBACK, a completion that throws).
C12_FailureResponseMapping ==
    \A p \in Running :
        Failed(p) =>
            /\ DOMAIN response[p].json = {"error"}
            /\ response[p].status = (IF NotFound(p) THEN 404 ELSE 400)
            /\ NotFound(p) => response[p].json.error = "Order not found"
            /\ ValidationFailed(p) => response[p].json.error = validateSplitRequest(body[p])

\* an insert failed and the operation answered 400 with the error's message
C12_Witness ==
    /\ pc[1] = "done"
    /\ InsertFailed(1)
    /\ response[1] = ErrorResponse(400, DbError)

\* the answer of validation to request p: the error message, "ok" once the
\* request got past validation
ValidationOutcome(p) ==
    IF ValidationFailed(p) THEN response[p].json.error ELSE "ok"

\* C13: a portion request with tableId and orderId is rejected exactly when
\* count is missing, not a number, not an integer or < 1, with the count
\* message, whatever the percentages field holds; a percentage request with
\* tableId and orderId gets the answer the same request without a count gets.
C13_OnlyMatchingFieldValidated ==
    \A p \in Running :
        (/\ pc[p] # "validate"
         /\ ~Falsy(body[p].tableId)
         /\ ~Falsy(body[p].orderId)) =>
            /\ body[p].splitType = "portion" =>
                  LET c == body[p].count
                      bad == \/ c.t # "number"
                             \/ ~IsInteger(c.v)
                             \/ FLt(c.v, One)
                  IN  /\ ValidationFailed(p) <=> bad
                      /\ bad => response[p].json.error =
                                  "For portion split, count must be a positive integer"
            /\ body[p].splitType = "percentage" =>
                  ValidationOutcome(p) =
                      validateSplitRequest([body[p] EXCEPT !.count = NoValue])

\* a portion split by 2 succeeded although the request carried percentages
\* that sum to 95
C13_Witness ==
    /\ Succeeded(1)
    /\ body[1].splitType = "portion"
    /\ body[1].count = NumValue(Num(2))
    /\ body[1].percentages = ArrValue(<<Num(40), Num(35), Num(20)>>)

\* the calls request p made after its call number k
CallsAfter(p, k) == {trace[p][l] : l \in (k + 1)..Len(trace[p])}

\* the number of inserts of request p that returned a row
InsertsDone(p) == Cardinality({k \in DOMAIN trace[p] : trace[p][k] = "INSERT"})

OwnSet(p, rows) ==
    /\ Len(rows) = Len(splits[p])
    /\ \A k \in DOMAIN rows : CloneOf(p, rows[k], order[p], k)

\* C15: two requests for the same order take no lock and do not look for
\* derived rows: both read the same original row, neither sees a row the other
\* has not committed, and when both transactions have committed each request
\* holds the full result list of its own shares and the store holds, of each
\* request, its whole own set under the derived ids (or none of it, once the
\* table has been closed).
C15_KnownRace ==
    \A p, q \in ProcIds :
        p # q =>
            /\ (order[p] # NoRow /\ order[q] # NoRow) => order[p] = order[q]
            /\ txn[p] # "committed" => Len(Mine(p)) = 0
            /\ (txn[p] = "committed" /\ txn[q] = "committed") =>
                  /\ Len(results[p]) = Len(splits[p])
                  /\ Len(Mine(p)) > 0 => OwnSet(p, Mine(p))

\* both requests answered 'Bill split successful' and the store holds two rows
\* 'O1-split-1' and two rows 'O1-split-2', halves from the one request and
\* 60/40 shares from the other
C15_Witness ==
    /\ Succeeded(1) /\ Succeeded(2)
    /\ txn[1] = "committed" /\ txn[2] = "committed"
    /\ order[1] = order[2]
    /\ body[1].splitType = "portion" /\ body[2].splitType = "percentage"
    /\ OwnSet(1, Mine(1)) /\ OwnSet(2, Mine(2))
    /\ Len(SelectSeq(orders, LAMBDA r : r.id = "O1-split-1")) = 2
    /\ Mine(1)[1].json_data # Mine(2)[1].json_data

\* the rows of the store that request p's transaction did not write
NotMine(p) == SelectSeq(orders, LAMBDA r : r.xmin # p)

\* request p executes a statement of its transaction: BEGIN, an insert,
\* COMMIT or ROLLBACK
TransactionStep(p) ==
    /\ pc[p] \in {"begin", "insert", "commit", "rollback"}
    /\ trace'[p] # trace[p]

\* C16: a statement of the split transaction (BEGIN, an insert, COMMIT,
\* ROLLBACK) leaves every row of the store that the transaction did not insert
\* as it was, the original order row included, and the rows the transaction
\* holds or has committed after the statement all carry derived ids.
C16_TransactionFrame ==
    [][\A p \in ProcIds :
          TransactionStep(p) =>
              /\ NotMine(p)' = NotMine(p)
              /\ \A r \in Range(Mine(p)') \cup Range(pending'[p]) :
                    /\ r.xmin = p
                    /\ r.id \in DerivedIds(body[p].orderId, Len(splits[p]))]_vars

\* the transaction has committed its two rows and the two rows that were in
\* the store before are there unchanged
C16_Witness ==
    /\ txn[1] = "committed"
    /\ Len(Mine(1)) = 2
    /\ Len(NotMine(1)) = 2
    /\ Returned(NotMine(1)[1]) = order[1]
    /\ NotMine(1)[2] = OrderRow("O2", "T2", Menu1(Num(9)))

\* C17: for both strategies the number of shares is count, respectively the
\* length of percentages; every share holds exactly the item ids of the
\* original item map, and every item of a share has as many customizations as
\* the original item, the same ones in the same order; a customization of
\* quantity 0 is kept, with quantity 0.
C17_ShareStructure ==
    \A p \in Running :
        splits[p] # <<>> =>
            /\ Len(splits[p]) = Shares(p)
            /\ \A k \in 1..Len(splits[p]) :
                  /\ DOMAIN splits[p][k] = DOMAIN Items(p)
                  /\ \A it \in DOMAIN Items(p) :
                        LET was == Items(p)[it].customizations
                            now == splits[p][k][it].customizations
                        IN  /\ DOMAIN now = DOMAIN was
                            /\ \A j \in DOMAIN was :
                                  /\ now[j].cname = was[j].cname
                                  /\ was[j].qty = Zero => now[j].qty = Zero

\* three portions of the order whose tea has a milk customization of
\* quantity 0: the third share lists both items, and milk with quantity 0
C17_Witness ==
    /\ PortionComputed(1)
    /\ Len(splits[1]) = 3
    /\ DOMAIN splits[1][3] = {"i1", "i2"}
    /\ Len(splits[1][3].i1.customizations) = 2
    /\ splits[1][3].i1.customizations[2].cname = "milk"
    /\ splits[1][3].i1.customizations[2].qty = Zero

\* C18: on the client of a request, no ROLLBACK is issued after a COMMIT that
\* succeeded.
C18_NoRollbackAfterCommit ==
    \A p \in Running :
        \A k \in DOMAIN trace[p] :
            trace[p][k] = "COMMIT" =>
                CallsAfter(p, k) \cap {"ROLLBACK", "ROLLBACK failed"} = {}

\* the number of times request p released its client
Releases(p) == Cardinality({k \in DOMAIN trace[p] : trace[p][k] = "RELEASE"})

\* the pool handed request p a client
Acquired(p) == \E k \in DOMAIN trace[p] : trace[p][k] = "CONNECT"

\* every client acquired is released once, when createSplitOrders is left,
\* and never twice; no client is released that was not acquired
ReleasedOnce(p) ==
    /\ Releases(p) <= 1
    /\ ~Acquired(p) => Releases(p) = 0
    /\ (Acquired(p) /\ pc[p] = "done") => Releases(p) = 1

\* C19: every client acquired by createSplitOrders is released exactly once
\* on every path, and a released client has no open transaction: the
\* transaction BEGIN opened has been ended by then.
C19_ReleasedWithTransactionEnded ==
    \A p \in Running :
        /\ ReleasedOnce(p)
        /\ Releases(p) = 1 => txn[p] # "open"

\* C20: an error response means that no derived row of the operation is in
\* the store and its transaction did not commit; the answer 'Bill split
\* successful' means that the transaction committed all N derived rows and
\* the response lists them.
C20_OutcomeAgreesWithStore ==
    \A p \in Running :
        pc[p] = "done" =>
            /\ ~Succeeded(p) => (Len(Mine(p)) = 0 /\ txn[p] # "committed")
            /\ Succeeded(p) => /\ txn[p] = "committed"
                               /\ Len(response[p].json.results) = Len(splits[p])
                               /\ Len(splits[p]) = Shares(p)

====
